---- MODULE Spec2Model ----
(***************************************************************************)
(* Model of the smart-research-agent pipeline:                             *)
(*   src/src/agent/research_agent.py   ResearchAgent (research and steps)  *)
(*   src/src/storage/database.py       ResearchDatabase (Session Store)    *)
(*   src/src/search/web_search.py      WebSearcher (Search Gateway)        *)
(*   src/src/agent/llm_client.py       LLMClient (Model Gateway)           *)
(*                                                                         *)
(* Text is modelled as a sequence of one-character strings, so that the    *)
(* string operations of the code (split, strip, lstrip, startswith,        *)
(* replace, isalpha) are computed as Python computes them.                 *)
(***************************************************************************)
EXTENDS Integers, Sequences, FiniteSets, TLC

VARIABLES
    \* ---- Session Store (sqlite tables of database.py)
    sessions,            \* research_sessions rows; the row id is the index
    sourceRows,          \* sources rows, in insertion order
    findingRows,         \* findings rows, in insertion order
    now,                 \* the clock behind CURRENT_TIMESTAMP (one-second steps)
    \* ---- one call of ResearchAgent.research
    pc,                  \* position of the run inside research()
    topic, depth, max_sources,   \* the arguments of research()
    engine,              \* WebSearcher.engine (Config.search_engine)
    session_id,          \* local of research()
    research_questions,  \* local of research()
    sources,             \* the list built by _collect_sources
    qi,                  \* _collect_sources: index of the current query
    search_results,      \* _collect_sources: results of the current query
    ri,                  \* _collect_sources: index of the current result
    si,                  \* research(): index in the add_source loop
    findings,            \* the list returned by _analyze_sources
    fi,                  \* research(): index in the add_finding loop
    report,              \* the dict returned by _generate_report
    report_path,         \* the path returned by _save_report
    files,               \* report files on disk
    error,               \* the exception that left research(), or "none"
    llmOut,              \* the outcome of the last LLMClient.generate call
    llmFailed,           \* the stages whose LLMClient.generate call raised
    completeCalls,       \* number of complete_session calls of this run
    lastWrite,           \* the last Session Store write of this run
    llmCalled,           \* the stages whose LLMClient.generate call was made
    searchCalls,         \* number of WebSearcher.search calls of this run
    extractCalls,        \* number of WebSearcher.extract_content calls of this run
    emptyExtracts,       \* number of those calls that returned ""
    srcPos,              \* for each entry of sources, its <<query, result>> position
    \* ---- direct use of the Session Store (main.py list_reports)
    listed,              \* the list returned by the last list_sessions call
    listLimit,           \* the limit of the last list_sessions call
    lastOp,              \* the last store operation called directly
    opSession,           \* the session_id argument of that operation (0: none)
    \* ---- the text functions applied to one model response
    pkind,               \* which function the response is given to
    ptopic, pdepth,      \* the topic and depth arguments (question generation)
    ptext,               \* the response text
    pok,                 \* whether LLMClient.generate returned (TRUE) or raised
    pdone,               \* whether the function has been applied
    pres                 \* its result

storeVars == <<sessions, sourceRows, findingRows, now>>
runVars == <<pc, topic, depth, max_sources, engine, session_id, research_questions,
             sources, qi, search_results, ri, si, findings, fi, report, report_path,
             files, error, llmOut, llmFailed, completeCalls, lastWrite, llmCalled,
             searchCalls, extractCalls, emptyExtracts, srcPos>>
callVars == <<llmCalled, searchCalls, extractCalls, emptyExtracts, srcPos>>
listVars == <<listed, listLimit, lastOp, opSession>>
parseVars == <<pkind, ptopic, pdepth, ptext, pok, pdone, pres>>
vars == <<storeVars, runVars, listVars, parseVars>>

(***************************************************************************)
(* Text: Python str operations on sequences of characters.                 *)
(***************************************************************************)
NL == "\n"

\* str.isspace() characters that occur in the modelled texts
Whitespace == {" ", "\t"}

\* str.isalpha() characters that occur in the modelled texts
Alpha == {"a", "b", "c", "d", "A", "B", "H", "i", "g", "h", "L", "o", "w",
          "F", "I", "N", "D", "G", "S", "O", "U", "R", "C", "E", "n", "t", "e",
          "r", "p", "q", "x", "y"}

\* the argument of lstrip in _generate_research_questions
EnumChars == {"0", "1", "2", "3", "4", "5", "6", "7", "8", "9", ".", ")", "-"}

IsAlpha(c) == c \in Alpha

HasAlpha(s) == \E i \in 1..Len(s) : IsAlpha(s[i])

RECURSIVE LStrip(_, _)
LStrip(s, cs) ==
    IF s = <<>> THEN s
    ELSE IF Head(s) \in cs THEN LStrip(Tail(s), cs) ELSE s

RECURSIVE RStrip(_, _)
RStrip(s, cs) ==
    IF s = <<>> THEN s
    ELSE IF s[Len(s)] \in cs THEN RStrip(SubSeq(s, 1, Len(s) - 1), cs) ELSE s

Strip(s) == RStrip(LStrip(s, Whitespace), Whitespace)

StartsWith(s, p) == Len(s) >= Len(p) /\ SubSeq(s, 1, Len(p)) = p

Drop(s, n) == SubSeq(s, n + 1, Len(s))

\* s[:n] for n >= 0
Take(s, n) == SubSeq(s, 1, IF n < Len(s) THEN n ELSE Len(s))

\* s.replace(old, ""): every non-overlapping occurrence, left to right
RECURSIVE Replace(_, _)
Replace(s, old) ==
    IF s = <<>> THEN s
    ELSE IF StartsWith(s, old) THEN Replace(Drop(s, Len(old)), old)
    ELSE <<Head(s)>> \o Replace(Tail(s), old)

\* s.split(sep): the pieces between non-overlapping separators, left to right
RECURSIVE SplitFrom(_, _, _)
SplitFrom(s, sep, cur) ==
    IF s = <<>> THEN <<cur>>
    ELSE IF StartsWith(s, sep) THEN <<cur>> \o SplitFrom(Drop(s, Len(sep)), sep, <<>>)
    ELSE SplitFrom(Tail(s), sep, Append(cur, Head(s)))

Split(s, sep) == SplitFrom(s, sep, <<>>)

\* "\n".join(lines)
RECURSIVE Join(_)
Join(lines) ==
    IF lines = <<>> THEN <<>>
    ELSE IF Len(lines) = 1 THEN lines[1]
    ELSE lines[1] \o <<NL>> \o Join(Tail(lines))

(***************************************************************************)
(* Model Gateway: LLMClient.generate returns a text or raises RuntimeError *)
(***************************************************************************)
Raised == [ok |-> FALSE, text |-> <<>>]

Returned(t) == [ok |-> TRUE, text |-> t]

Generate(texts) == {Raised} \cup {Returned(t) : t \in texts}

(***************************************************************************)
(* _generate_research_questions                                            *)
(***************************************************************************)
\* {"quick": 3, "standard": 5, "deep": 8}.get(depth, 5)
NumQuestions(d) ==
    CASE d = "quick" -> 3
      [] d = "standard" -> 5
      [] d = "deep" -> 8
      [] OTHER -> 5

\* KeepLine without the isalpha test
KeepLineNonBlank(line) == Strip(line) # <<>>

\* the condition of the list comprehension: line.strip() and any(c.isalpha() ...)
KeepLine(line) == Strip(line) # <<>> /\ HasAlpha(line)

\* the element of the list comprehension
CleanLine(line) == Strip(LStrip(Strip(line), EnumChars))

ParseQuestions(response) ==
    LET kept == SelectSeq(Split(response, <<NL>>), KeepLine)
    IN  [i \in 1..Len(kept) |-> CleanLine(kept[i])]

\* out is the outcome of the model call; the except branch returns [topic]
GenerateResearchQuestions(t, d, out) ==
    IF out.ok THEN Take(ParseQuestions(out.text), NumQuestions(d))
    ELSE <<t>>

(***************************************************************************)
(* _analyze_sources: the finding parser                                    *)
(***************************************************************************)
FINDING_TAG == <<"F", "I", "N", "D", "I", "N", "G", ":">>
SOURCES_TAG == <<"S", "O", "U", "R", "C", "E", "S", ":">>
CONFIDENCE_TAG == <<"C", "O", "N", "F", "I", "D", "E", "N", "C", "E", ":">>

\* the dict {} and the dict operations used by the parser
EmptyDict == [k \in {} |-> <<>>]

DictSet(d, key, val) == [k \in DOMAIN d \cup {key} |-> IF k = key THEN val ELSE d[k]]

HasKey(d, key) == key \in DOMAIN d

\* bool(dict): a dict is true when it has a key
Truthy(d) == DOMAIN d # {}

\* the value the parser stores for a tagged line
TagValue(line, tag) == Strip(Replace(line, tag))

\* one iteration of the for loop; st = [findings, current_finding]
ParseFindingLine(st, raw) ==
    LET line == Strip(raw)
    IN  IF StartsWith(line, FINDING_TAG)
        THEN [findings |-> IF Truthy(st.current_finding)
                           THEN Append(st.findings, st.current_finding)
                           ELSE st.findings,
              current_finding |-> DictSet(EmptyDict, "text", TagValue(line, FINDING_TAG))]
        ELSE IF StartsWith(line, SOURCES_TAG)
        THEN [st EXCEPT !.current_finding =
                  DictSet(@, "sources", TagValue(line, SOURCES_TAG))]
        ELSE IF StartsWith(line, CONFIDENCE_TAG)
        THEN [st EXCEPT !.current_finding =
                  DictSet(@, "confidence", TagValue(line, CONFIDENCE_TAG))]
        ELSE st

RECURSIVE ParseFindingLines(_, _)
ParseFindingLines(st, lines) ==
    IF lines = <<>> THEN st
    ELSE ParseFindingLines(ParseFindingLine(st, Head(lines)), Tail(lines))

ParseFindings(response) ==
    LET st == ParseFindingLines([findings |-> <<>>, current_finding |-> EmptyDict],
                                Split(response, <<NL>>))
    IN  IF Truthy(st.current_finding)
        THEN Append(st.findings, st.current_finding)
        ELSE st.findings

\* out is the outcome of the model call; the except branch leaves findings = []
AnalyzeSources(out) == IF out.ok THEN ParseFindings(out.text) ELSE <<>>

(***************************************************************************)
(* _generate_report                                                        *)
(***************************************************************************)
\* "Error generating report"
ErrorPlaceholder ==
    <<"E", "r", "r", "o", "r", " ", "g", "e", "n", "e", "r", "a", "t", "i", "n", "g",
      " ", "r", "e", "p", "o", "r", "t">>

\* Summary splitting at every line break instead of at blank lines
SummaryFirstLine(report_content) ==
    IF report_content # <<>> THEN Split(report_content, <<NL>>)[1] ELSE <<>>

\* report_content.split("\n\n")[0] if report_content else ""
Summary(report_content) ==
    IF report_content # <<>> THEN Split(report_content, <<NL, NL>>)[1] ELSE <<>>

\* out is the outcome of the model call
GenerateReport(out) ==
    IF out.ok THEN [content |-> out.text, summary |-> Summary(out.text)]
    ELSE [content |-> ErrorPlaceholder, summary |-> <<>>]

(***************************************************************************)
(* Session Store: ResearchDatabase                                         *)
(***************************************************************************)
\* SQL NULL in a timestamp column and in a text column
NullTime == -1
NullText == <<"NULL">>

\* INSERT INTO research_sessions (topic, depth): AUTOINCREMENT id, column defaults
CreateSession(ss, t, d, ts) ==
    Append(ss, [id |-> Len(ss) + 1, topic |-> t, depth |-> d, created_at |-> ts,
                completed_at |-> NullTime, status |-> "in_progress",
                summary |-> NullText, report_path |-> NullText])

\* INSERT INTO sources
AddSource(rows, sid, title, url, content, relevance_score, ts) ==
    Append(rows, [id |-> Len(rows) + 1, session_id |-> sid, title |-> title,
                  url |-> url, content |-> content,
                  relevance_score |-> relevance_score, retrieved_at |-> ts])

\* json.dumps of a list of small integers
RECURSIVE JsonItems(_)
JsonItems(l) ==
    IF l = <<>> THEN <<>>
    ELSE IF Len(l) = 1 THEN <<ToString(l[1])>>
    ELSE <<ToString(l[1]), ",", " ">> \o JsonItems(Tail(l))

JsonDumps(l) == <<"[">> \o JsonItems(l) \o <<"]">>

\* INSERT INTO findings
AddFinding(rows, sid, finding, source_ids, confidence, ts) ==
    Append(rows, [id |-> Len(rows) + 1, session_id |-> sid, finding |-> finding,
                  source_ids |-> JsonDumps(source_ids), confidence |-> confidence,
                  created_at |-> ts])

\* CompleteSession without the WHERE clause
CompleteSessionAll(ss, sid, summary, path, ts) ==
    [i \in DOMAIN ss |->
        [ss[i] EXCEPT !.status = "completed", !.completed_at = ts,
                      !.summary = summary, !.report_path = path]]

\* UPDATE research_sessions SET ... WHERE id = ?
CompleteSession(ss, sid, summary, path, ts) ==
    [i \in DOMAIN ss |->
        IF ss[i].id = sid
        THEN [ss[i] EXCEPT !.status = "completed", !.completed_at = ts,
                           !.summary = summary, !.report_path = path]
        ELSE ss[i]]

\* SELECT * FROM research_sessions WHERE id = ?
GetSession(ss, sid) == {ss[i] : i \in {j \in DOMAIN ss : ss[j].id = sid}}

\* LIMIT n: a negative n is no limit
Limit(rows, n) == IF n < 0 THEN rows ELSE Take(rows, n)

Orderings(n) == {p \in [1..n -> 1..n] : \A i, j \in 1..n : i # j => p[i] # p[j]}

\* SELECT * ... ORDER BY created_at DESC LIMIT ?: the query names no second sort
\* key, so SQL leaves the order of rows with equal created_at open; the set of
\* the lists the query may return
ListSessions(ss, limit) ==
    { Limit([i \in 1..Len(ss) |-> ss[p[i]]], limit) :
        p \in { q \in Orderings(Len(ss)) :
                  \A i, j \in 1..Len(ss) :
                      i < j => ss[q[i]].created_at >= ss[q[j]].created_at } }

(***************************************************************************)
(* Search Gateway: WebSearcher                                             *)
(***************************************************************************)
Engines == {"duckduckgo", "serper"}

\* the k-th result of a query
Result(k) == [title |-> <<"t", ToString(k)>>, url |-> <<"u", ToString(k)>>,
              snippet |-> <<"s", ToString(k)>>]

\* _search_duckduckgo: up to max_results results; [] when DDGS raises
SearchDuckDuckGo(query, max_results) ==
    {[i \in 1..k |-> Result(i)] : k \in 0..max_results}

\* search: the outcomes of one call; an engine other than duckduckgo raises
Search(eng, query, max_results) ==
    IF eng = "duckduckgo"
    THEN {[ok |-> TRUE, results |-> r] : r \in SearchDuckDuckGo(query, max_results)}
    ELSE {[ok |-> FALSE, results |-> <<>>]}

\* text[:10000]
ContentCap == 10000

PageTexts == {<<"p">>}

\* extract_content: the page text, capped; "" when the fetch or the parse raises
ExtractContent(url) == {<<>>} \cup {Take(t, ContentCap) : t \in PageTexts}

(***************************************************************************)
(* Inputs of research() and of the model                                   *)
(***************************************************************************)
Topics == {<<"A">>, <<"q", "?">>}

\* main.py restricts --depth to the first three; research() takes any string
Depths == {"quick", "standard", "deep", "other"}

SeqsUpTo(S, n) == UNION {[1..k -> S] : k \in 0..n}

Texts(lines, n) == {Join(ls) : ls \in SeqsUpTo(lines, n)}

\* ---- responses to the question prompt
MaxQLines == 4

QLineA == <<"1", ".", " ", "a">>
QLineB == <<" ", "-", " ", "b", " ">>
QLineC == <<"3", ".", " ", "4", ")", "c">>

QLines == { <<>>, <<" ">>, <<"2", ")">>, QLineA, QLineB, QLineC }

QTexts == Texts(QLines, MaxQLines)

\* ---- responses to the analysis prompt
MaxFLines == 4

FindingA == FINDING_TAG \o <<" ", "A">>
FindingB == FINDING_TAG \o <<" ", "B">>
Sources12 == SOURCES_TAG \o <<" ", "1", ",", "2">>
Sources3 == <<" ">> \o SOURCES_TAG \o <<"3", " ">>
ConfidenceHigh == CONFIDENCE_TAG \o <<" ", "H", "i", "g", "h">>
ConfidenceLow == CONFIDENCE_TAG \o <<" ", "L", "o", "w">>
FindingTwice == FINDING_TAG \o <<" ", "A", " ">> \o FINDING_TAG \o <<" ", "B">>
Untagged == <<"n", "o", "t", "e">>

FLines == {FindingA, FindingB, Sources12, Sources3, ConfidenceHigh, ConfidenceLow,
           FindingTwice, Untagged}

\* the response of the spec's example
ExampleFindings == Join(<<FindingA, Sources12, ConfidenceHigh, FindingB, ConfidenceLow>>)

FTexts == Texts(FLines, MaxFLines) \cup {ExampleFindings}

\* ---- responses to the report prompt
MaxRLines == 4

RLines == { <<>>, <<" ">>, <<"S">>, <<"B", ".">> }

RTexts == Texts(RLines, MaxRLines)

(***************************************************************************)
(* The text functions applied to one model response                        *)
(***************************************************************************)
NoWrite == [op |-> "none", session_id |-> 0]

IdleStore ==
    /\ sessions = <<>>
    /\ sourceRows = <<>>
    /\ findingRows = <<>>
    /\ now = 0

IdleRun ==
    /\ pc = "idle"
    /\ topic = <<"A">>
    /\ depth = "standard"
    /\ max_sources = 0
    /\ engine = "duckduckgo"
    /\ session_id = 0
    /\ research_questions = <<>>
    /\ sources = <<>>
    /\ qi = 0
    /\ search_results = <<>>
    /\ ri = 0
    /\ si = 0
    /\ findings = <<>>
    /\ fi = 0
    /\ report = [content |-> <<>>, summary |-> <<>>]
    /\ report_path = <<>>
    /\ files = {}
    /\ error = "none"
    /\ llmOut = Returned(<<>>)
    /\ llmFailed = {}
    /\ completeCalls = 0
    /\ lastWrite = NoWrite
    /\ llmCalled = {}
    /\ searchCalls = 0
    /\ extractCalls = 0
    /\ emptyExtracts = 0
    /\ srcPos = <<>>

IdleList ==
    /\ listed = <<>>
    /\ listLimit = 0
    /\ lastOp = "none"
    /\ opSession = 0

IdleParse ==
    /\ pkind = "none"
    /\ ptopic = <<"A">>
    /\ pdepth = "standard"
    /\ ptext = <<>>
    /\ pok = TRUE
    /\ pdone = FALSE
    /\ pres = <<>>

InitParse ==
    /\ IdleStore
    /\ IdleRun
    /\ IdleList
    /\ pkind \in {"questions", "findings", "report"}
    /\ ptopic \in (IF pkind = "questions" THEN Topics ELSE {<<"A">>})
    /\ pdepth \in (IF pkind = "questions" THEN Depths ELSE {"standard"})
    /\ pok \in BOOLEAN
    /\ ptext \in (IF ~pok THEN {<<>>}
                  ELSE CASE pkind = "questions" -> QTexts
                         [] pkind = "findings" -> FTexts
                         [] OTHER -> RTexts)
    /\ pdone = FALSE
    /\ pres = <<>>

\* the outcome of LLMClient.generate for this input
POutcome == IF pok THEN Returned(ptext) ELSE Raised

ApplyQuestions ==
    /\ pkind = "questions"
    /\ ~pdone
    /\ pres' = GenerateResearchQuestions(ptopic, pdepth, POutcome)
    /\ pdone' = TRUE
    /\ UNCHANGED <<storeVars, runVars, listVars, pkind, ptopic, pdepth, ptext, pok>>

ApplyFindings ==
    /\ pkind = "findings"
    /\ ~pdone
    /\ pres' = AnalyzeSources(POutcome)
    /\ pdone' = TRUE
    /\ UNCHANGED <<storeVars, runVars, listVars, pkind, ptopic, pdepth, ptext, pok>>

ApplyReport ==
    /\ pkind = "report"
    /\ ~pdone
    /\ pres' = GenerateReport(POutcome)
    /\ pdone' = TRUE
    /\ UNCHANGED <<storeVars, runVars, listVars, pkind, ptopic, pdepth, ptext, pok>>

NextParse == ApplyQuestions \/ ApplyFindings \/ ApplyReport

SpecParse == InitParse /\ [][NextParse]_vars

(***************************************************************************)
(* One call of ResearchAgent.research                                      *)
(***************************************************************************)
\* the values of max_sources tried; main.py takes any integer
MaxSourcesArg == 2

MaxSourcesArgs == -1..MaxSourcesArg

\* self.searcher.search(query, max_results=3)
SearchMaxResults == 3

\* questions[:3]
TopQuestions == 3

\* the topic and the depth of the run; with the responses below "deep" and any
\* other depth string behave as "standard" does, and "quick" differs only in
\* dropping a fourth question that _collect_sources never queries
RunTopics == {<<"q", "?">>}

RunDepths == {"standard"}

\* responses of the model to the three prompts of a run
RunQTexts ==
    { <<>>,
      Join(<<QLineA, <<"2", ")">>, QLineB>>),
      Join(<<QLineA, QLineB, QLineC, QLineA>>) }

RunFTexts ==
    { <<>>,
      ExampleFindings,
      Join(<<Sources3, FindingA>>) }

RunRTexts ==
    { <<>>,
      <<"S">>,
      <<"S", NL, NL, "B", ".">>,
      <<"S", NL, " ", NL, "B", ".", NL, NL, NL, "S">>,
      <<NL, NL, "B", ".">> }

\* a store left by an earlier run of the program
PriorSession ==
    [id |-> 1, topic |-> <<"A">>, depth |-> "quick", created_at |-> 0,
     completed_at |-> 0, status |-> "completed", summary |-> <<"S">>,
     report_path |-> <<"0", "_", "A", ".", "m", "d">>]

PriorStores ==
    { [sessions |-> <<>>, sourceRows |-> <<>>, findingRows |-> <<>>],
      [sessions |-> <<PriorSession>>,
       sourceRows |-> AddSource(<<>>, 1, Result(1).title, Result(1).url, <<"p">>, 0, 0),
       findingRows |-> AddFinding(<<>>, 1, <<"A">>, <<>>, 0, 0)] }

InitRun ==
    /\ \E st \in PriorStores :
          /\ sessions = st.sessions
          /\ sourceRows = st.sourceRows
          /\ findingRows = st.findingRows
    /\ now = 0
    /\ pc = "create"
    /\ topic \in RunTopics
    /\ depth \in RunDepths
    /\ max_sources \in MaxSourcesArgs
    /\ engine \in Engines
    /\ session_id = 0
    /\ research_questions = <<>>
    /\ sources = <<>>
    /\ qi = 0
    /\ search_results = <<>>
    /\ ri = 0
    /\ si = 0
    /\ findings = <<>>
    /\ fi = 0
    /\ report = [content |-> <<>>, summary |-> <<>>]
    /\ report_path = <<>>
    /\ files = {}
    /\ error = "none"
    /\ llmOut = Returned(<<>>)
    /\ llmFailed = {}
    /\ completeCalls = 0
    /\ lastWrite = NoWrite
    /\ llmCalled = {}
    /\ searchCalls = 0
    /\ extractCalls = 0
    /\ emptyExtracts = 0
    /\ srcPos = <<>>
    /\ IdleList
    /\ IdleParse

\* an exception leaves research()
Abort(e) == pc' = "aborted" /\ error' = e

\* research() line 49: session_id = self.db.create_session(topic, depth)
CreateSessionStep ==
    /\ pc = "create"
    /\ sessions' = CreateSession(sessions, topic, depth, now)
    /\ session_id' = Len(sessions) + 1
    /\ lastWrite' = [op |-> "create_session", session_id |-> Len(sessions) + 1]
    /\ pc' = "questions"
    /\ UNCHANGED <<sourceRows, findingRows, now, topic, depth, max_sources, engine,
                   research_questions, sources, qi, search_results, ri, si, findings,
                   fi, report, report_path, files, error, llmOut, llmFailed,
                   completeCalls, callVars,
                   listVars, parseVars>>

\* research() line 55: research_questions = self._generate_research_questions(...)
GenerateQuestionsStep ==
    /\ pc = "questions"
    /\ \E out \in Generate(RunQTexts) :
          /\ llmOut' = out
          /\ llmFailed' = IF out.ok THEN llmFailed ELSE llmFailed \cup {"questions"}
          /\ research_questions' = GenerateResearchQuestions(topic, depth, out)
    /\ llmCalled' = llmCalled \cup {"questions"}
    /\ sources' = <<>>
    /\ qi' = 1
    /\ pc' = "collect_query"
    /\ UNCHANGED <<storeVars, topic, depth, max_sources, engine, session_id,
                   search_results, ri, si, findings, fi, report, report_path, files,
                   error, completeCalls, lastWrite, searchCalls, extractCalls, emptyExtracts, srcPos,
                   listVars, parseVars>>

\* Queries without the slice: one query per question
QueriesAll(t, questions) == <<t>> \o questions

\* _collect_sources line 136: queries = [topic] + questions[:3]
Queries(t, questions) == <<t>> \o Take(questions, TopQuestions)

\* CapReached with the comparison off by one
CapReachedLate(srcs, cap) == Len(srcs) > cap

\* the guard of both loops of _collect_sources: len(sources) >= max_sources
CapReached(srcs, cap) == Len(srcs) >= cap

\* AfterCollect that passes over the add_source loop
AfterCollectNoSave(srcs) == "analyze"

\* the position of research() after _collect_sources returns srcs
AfterCollect(srcs) == IF srcs = <<>> THEN "analyze" ELSE "save_sources"

\* _collect_sources: one iteration header of "for query in queries", with the
\* search call; the loop ends when the queries are used up or the cap is reached
CollectQueryStep ==
    /\ pc = "collect_query"
    /\ IF qi > Len(Queries(topic, research_questions)) \/ CapReached(sources, max_sources)
       THEN /\ pc' = AfterCollect(sources)
            /\ si' = 1
            /\ UNCHANGED <<search_results, ri, error, searchCalls>>
       ELSE /\ searchCalls' = searchCalls + 1
            /\ \E res \in Search(engine, Queries(topic, research_questions)[qi],
                                 SearchMaxResults) :
                  IF res.ok
                  THEN /\ search_results' = res.results
                       /\ ri' = 1
                       /\ pc' = "collect_result"
                       /\ UNCHANGED <<si, error>>
                  ELSE /\ Abort("NotImplementedError")
                       /\ UNCHANGED <<search_results, ri, si>>
    /\ UNCHANGED <<storeVars, topic, depth, max_sources, engine, session_id,
                   research_questions, sources, qi, findings, fi, report, report_path,
                   files, llmOut, llmFailed, completeCalls, lastWrite, llmCalled, extractCalls, emptyExtracts, srcPos,
                   listVars,
                   parseVars>>

\* the dict appended by _collect_sources
SourceEntry(result, content, query) ==
    [title |-> result.title, url |-> result.url, snippet |-> result.snippet,
     content |-> content, query |-> query]

\* _collect_sources line 151: if content
Accepted(content) == content # <<>>

\* _collect_sources: one iteration of "for result in search_results", with the
\* extract_content call
CollectResultStep ==
    /\ pc = "collect_result"
    /\ IF ri > Len(search_results) \/ CapReached(sources, max_sources)
       THEN /\ qi' = qi + 1
            /\ pc' = "collect_query"
            /\ UNCHANGED <<sources, ri, extractCalls, emptyExtracts, srcPos>>
       ELSE /\ \E content \in ExtractContent(search_results[ri].url) :
                  IF Accepted(content)
                  THEN /\ sources' = Append(sources,
                                            SourceEntry(search_results[ri], content,
                                                        Queries(topic, research_questions)[qi]))
                       /\ srcPos' = Append(srcPos, <<qi, ri>>)
                       /\ UNCHANGED emptyExtracts
                  ELSE /\ emptyExtracts' = emptyExtracts + 1
                       /\ UNCHANGED <<sources, srcPos>>
            /\ extractCalls' = extractCalls + 1
            /\ ri' = ri + 1
            /\ UNCHANGED <<qi, pc>>
    /\ UNCHANGED <<storeVars, topic, depth, max_sources, engine, session_id,
                   research_questions, search_results, si, findings, fi, report,
                   report_path, files, error, llmOut, llmFailed, completeCalls,
                   lastWrite, llmCalled, searchCalls,
                   listVars, parseVars>>

\* source.get("relevance", 0.0)
DictGet(d, key, default) == IF HasKey(d, key) THEN d[key] ELSE default

\* research() lines 64-71: one iteration of the add_source loop
SaveSourceStep ==
    /\ pc = "save_sources"
    /\ si <= Len(sources)
    /\ sourceRows' = AddSource(sourceRows, session_id, sources[si].title,
                               sources[si].url, sources[si].content,
                               DictGet(sources[si], "relevance", 0), now)
    /\ lastWrite' = [op |-> "add_source", session_id |-> session_id]
    /\ si' = si + 1
    /\ pc' = IF si = Len(sources) THEN "analyze" ELSE "save_sources"
    /\ UNCHANGED <<sessions, findingRows, now, topic, depth, max_sources, engine,
                   session_id, research_questions, sources, qi, search_results, ri,
                   findings, fi, report, report_path, files, error, llmOut, llmFailed,
                   completeCalls, callVars,
                   listVars, parseVars>>

\* research() line 75: findings = self._analyze_sources(...)
AnalyzeStep ==
    /\ pc = "analyze"
    /\ \E out \in Generate(RunFTexts) :
          /\ llmOut' = out
          /\ llmFailed' = IF out.ok THEN llmFailed ELSE llmFailed \cup {"analysis"}
          /\ findings' = AnalyzeSources(out)
          /\ pc' = IF AnalyzeSources(out) = <<>> THEN "report" ELSE "save_findings"
    /\ llmCalled' = llmCalled \cup {"analysis"}
    /\ fi' = 1
    /\ UNCHANGED <<storeVars, topic, depth, max_sources, engine, session_id,
                   research_questions, sources, qi, search_results, ri, si, report,
                   report_path, files, error, completeCalls, lastWrite, searchCalls, extractCalls, emptyExtracts, srcPos,
                   listVars,
                   parseVars>>

\* research() lines 79-82: one iteration of the add_finding loop;
\* finding["text"] raises KeyError when the record has no text key
SaveFindingStep ==
    /\ pc = "save_findings"
    /\ fi <= Len(findings)
    /\ IF HasKey(findings[fi], "text")
       THEN /\ findingRows' = AddFinding(findingRows, session_id, findings[fi].text,
                                         DictGet(findings[fi], "source_ids", <<>>), 0,
                                         now)
            /\ lastWrite' = [op |-> "add_finding", session_id |-> session_id]
            /\ fi' = fi + 1
            /\ pc' = IF fi = Len(findings) THEN "report" ELSE "save_findings"
            /\ UNCHANGED error
       ELSE /\ Abort("KeyError")
            /\ UNCHANGED <<findingRows, lastWrite, fi>>
    /\ UNCHANGED <<sessions, sourceRows, now, topic, depth, max_sources, engine,
                   session_id, research_questions, sources, qi, search_results, ri, si,
                   findings, report, report_path, files, llmOut, llmFailed,
                   completeCalls, callVars,
                   listVars, parseVars>>

\* research() line 86: report = self._generate_report(topic, findings, sources);
\* findings_text reads f['text'] of every finding before the try block
GenerateReportStep ==
    /\ pc = "report"
    /\ IF \A i \in 1..Len(findings) : HasKey(findings[i], "text")
       THEN /\ \E out \in Generate(RunRTexts) :
                  /\ llmOut' = out
                  /\ llmFailed' = IF out.ok THEN llmFailed
                                  ELSE llmFailed \cup {"report"}
                  /\ report' = GenerateReport(out)
            /\ llmCalled' = llmCalled \cup {"report"}
            /\ pc' = "save_report"
            /\ UNCHANGED error
       ELSE /\ Abort("KeyError")
            /\ UNCHANGED <<llmOut, llmFailed, llmCalled, report>>
    /\ UNCHANGED <<storeVars, topic, depth, max_sources, engine, session_id,
                   research_questions, sources, qi, search_results, ri, si, findings,
                   fi, report_path, files, completeCalls, lastWrite, searchCalls, extractCalls, emptyExtracts, srcPos,
                   listVars,
                   parseVars>>

\* str.isalnum() characters that occur in the modelled topics
Alnum == Alpha \cup {"0", "1", "2", "3", "4", "5", "6", "7", "8", "9"}

\* [:50]
SlugCap == 50

\* "".join(c for c in topic if c.isalnum() or c in " -_")[:50]
SafeTopic(t) ==
    LET Safe(c) == c \in Alnum \/ c \in {" ", "-", "_"}
    IN  Take(SelectSeq(t, Safe), SlugCap)

\* report_output_dir / f"{timestamp}_{safe_topic}.md"
ReportPath(ts, t) == <<ToString(ts), "_">> \o SafeTopic(t) \o <<".", "m", "d">>

\* the text written by _save_report, as its parts
ReportFile(sid, t, ts, content) ==
    [title |-> t, session_id |-> sid, generated |-> ts, body |-> content]

\* research() line 89: report_path = self._save_report(session_id, topic, report);
\* open(report_path, "w") replaces a file of the same name
SaveReportStep ==
    /\ pc = "save_report"
    /\ report_path' = ReportPath(now, topic)
    /\ files' = {f \in files : f.path # ReportPath(now, topic)}
                  \cup {[path |-> ReportPath(now, topic),
                         text |-> ReportFile(session_id, topic, now, report.content)]}
    /\ pc' = "complete"
    /\ UNCHANGED <<storeVars, topic, depth, max_sources, engine, session_id,
                   research_questions, sources, qi, search_results, ri, si, findings,
                   fi, report, error, llmOut, llmFailed, completeCalls, lastWrite,
                   callVars,
                   listVars, parseVars>>

\* CompleteSessionStep that does not leave the position, so that the call repeats
CompleteSessionStepAgain ==
    /\ pc = "complete"
    /\ completeCalls < 2
    /\ sessions' = CompleteSession(sessions, session_id, report.summary, report_path,
                                   now)
    /\ completeCalls' = completeCalls + 1
    /\ lastWrite' = [op |-> "complete_session", session_id |-> session_id]
    /\ pc' = IF completeCalls = 0 THEN "complete" ELSE "done"
    /\ UNCHANGED <<sourceRows, findingRows, now, topic, depth, max_sources, engine,
                   session_id, research_questions, sources, qi, search_results, ri, si,
                   findings, fi, report, report_path, files, error, llmOut, llmFailed,
                   callVars,
                   listVars, parseVars>>

\* research() line 93: self.db.complete_session(session_id, summary, str(path)),
\* then the return of the result
CompleteSessionStep ==
    /\ pc = "complete"
    /\ sessions' = CompleteSession(sessions, session_id, report.summary, report_path,
                                   now)
    /\ completeCalls' = completeCalls + 1
    /\ lastWrite' = [op |-> "complete_session", session_id |-> session_id]
    /\ pc' = "done"
    /\ UNCHANGED <<sourceRows, findingRows, now, topic, depth, max_sources, engine,
                   session_id, research_questions, sources, qi, search_results, ri, si,
                   findings, fi, report, report_path, files, error, llmOut, llmFailed,
                   callVars,
                   listVars, parseVars>>

\* research() lines 95-102: the returned dict
ReturnValue ==
    [session_id |-> session_id, topic |-> topic, report |-> report,
     report_path |-> report_path, sources |-> sources, findings |-> findings]

\* the positions of research() that call the Session Store
StoreCallPcs == {"create", "save_sources", "save_findings", "complete"}

\* a Session Store call raises sqlite3.Error: nothing is written and the
\* exception leaves research()
StoreFailsStep ==
    /\ pc \in StoreCallPcs
    /\ pc = "save_findings" => HasKey(findings[fi], "text")
    /\ Abort("sqlite3.Error")
    /\ UNCHANGED <<storeVars, topic, depth, max_sources, engine, session_id,
                   research_questions, sources, qi, search_results, ri, si, findings,
                   fi, report, report_path, files, llmOut, llmFailed, completeCalls,
                   lastWrite, callVars,
                   listVars, parseVars>>

Next ==
    \/ CreateSessionStep
    \/ GenerateQuestionsStep
    \/ CollectQueryStep
    \/ CollectResultStep
    \/ SaveSourceStep
    \/ AnalyzeStep
    \/ SaveFindingStep
    \/ GenerateReportStep
    \/ SaveReportStep
    \/ CompleteSessionStep
    \/ StoreFailsStep

Init == InitRun

Spec == Init /\ [][Next]_vars

(***************************************************************************)
(* The Session Store used directly: sessions are created, the clock        *)
(* advances, and list_sessions is called (main.py list_reports)            *)
(***************************************************************************)
MaxSessions == 3

MaxClock == 2

StoreTopics == {<<"A">>, <<"B">>, <<"C">>}

ListLimits == 0..MaxSessions

InitStore ==
    /\ IdleStore
    /\ IdleRun
    /\ IdleList
    /\ IdleParse

\* the second of CURRENT_TIMESTAMP changes
Tick ==
    /\ now < MaxClock
    /\ now' = now + 1
    /\ UNCHANGED <<sessions, sourceRows, findingRows, runVars, listVars, parseVars>>

\* db.create_session(t, "standard")
StoreCreateSession ==
    /\ Len(sessions) < MaxSessions
    /\ \E t \in StoreTopics : sessions' = CreateSession(sessions, t, "standard", now)
    /\ lastOp' = "create_session"
    /\ UNCHANGED <<sourceRows, findingRows, now, runVars, listed, listLimit, opSession,
                   parseVars>>

\* db.list_sessions(limit)
StoreListSessions ==
    /\ \E limit \in ListLimits :
          /\ listLimit' = limit
          /\ listed' \in ListSessions(sessions, limit)
    /\ lastOp' = "list_sessions"
    /\ UNCHANGED <<storeVars, runVars, opSession, parseVars>>

NextStore == Tick \/ StoreCreateSession \/ StoreListSessions

SpecStore == InitStore /\ [][NextStore]_vars

(***************************************************************************)
(* The write operations of the Session Store, called in any order with any *)
(* session id: SQLite does not enforce the foreign keys of the schema      *)
(* unless PRAGMA foreign_keys is set, and ResearchDatabase does not set it *)
(***************************************************************************)
MaxStoreRows == 2

\* the session_id arguments; an id is of no session until that session is created
StoreIds == {1, 2}

\* db.add_source(sid, title, url, content)
StoreAddSource ==
    /\ Len(sourceRows) + Len(findingRows) < MaxStoreRows
    /\ \E sid \in StoreIds :
          /\ sourceRows' = AddSource(sourceRows, sid, Result(1).title, Result(1).url,
                                     <<"p">>, 0, now)
          /\ opSession' = sid
    /\ lastOp' = "add_source"
    /\ UNCHANGED <<sessions, findingRows, now, runVars, listed, listLimit, parseVars>>

\* db.add_finding(sid, finding, source_ids)
StoreAddFinding ==
    /\ Len(sourceRows) + Len(findingRows) < MaxStoreRows
    /\ \E sid \in StoreIds :
          /\ findingRows' = AddFinding(findingRows, sid, <<"A">>, <<1, 2>>, 0, now)
          /\ opSession' = sid
    /\ lastOp' = "add_finding"
    /\ UNCHANGED <<sessions, sourceRows, now, runVars, listed, listLimit, parseVars>>

\* db.complete_session(sid, summary, report_path)
StoreCompleteSession ==
    /\ \E sid \in StoreIds :
          /\ sessions' = CompleteSession(sessions, sid, <<"S">>, <<"r">>, now)
          /\ opSession' = sid
    /\ lastOp' = "complete_session"
    /\ UNCHANGED <<sourceRows, findingRows, now, runVars, listed, listLimit, parseVars>>

NextWrites ==
    StoreCreateSession \/ StoreAddSource \/ StoreAddFinding \/ StoreCompleteSession

SpecWrites == InitStore /\ [][NextWrites]_vars

(***************************************************************************)
(* Properties                                                              *)
(***************************************************************************)
\* the rows of a table that belong to session sid
RowsOf(rows, sid) == SelectSeq(rows, LAMBDA r : r.session_id = sid)

\* the row of the session of this run
RunSession == sessions[session_id]

\* C1: the source list of _collect_sources never holds more than max_sources
\* entries at any point of the run, and the source rows stored for the session
\* number at most max_sources (none when max_sources <= 0).
C1_SourcesWithinCap ==
    LET cap == IF max_sources > 0 THEN max_sources ELSE 0
    IN  /\ Len(sources) <= cap
        /\ session_id # 0 => Len(RowsOf(sourceRows, session_id)) <= cap

\* a run that filled the cap from a query that had more results to give
C1_Witness ==
    /\ pc = "done"
    /\ max_sources = MaxSourcesArg
    /\ Len(RowsOf(sourceRows, session_id)) = max_sources
    /\ Len(search_results) = SearchMaxResults
    /\ ri <= SearchMaxResults

\* C2: when the question-generation model call raises, the question list is
\* exactly [topic] and the run goes on to end completed: it does not end in an
\* exception (a failing Session Store aside).
C2_QuestionFailureStillCompletes ==
    "questions" \in llmFailed =>
        /\ research_questions = <<topic>>
        /\ pc = "aborted" => error = "sqlite3.Error"
        /\ pc = "done" => RunSession.status = "completed"

\* C3: complete_session is called at most once in a run and exactly once in a
\* run that returns; the session turns from in_progress to completed only
\* there, and that call is the last Session Store write of the run.
C3_CompletedExactlyOnce ==
    /\ completeCalls <= 1
    /\ pc = "done" => completeCalls = 1
    /\ session_id # 0 =>
          /\ RunSession.status = (IF completeCalls = 0 THEN "in_progress" ELSE "completed")
          /\ RunSession.status = "completed" =>
                /\ pc = "done"
                /\ lastWrite = [op |-> "complete_session", session_id |-> session_id]

\* a run that returned, beside the untouched session of an earlier run
C3_Witness ==
    /\ pc = "done"
    /\ completeCalls = 1
    /\ session_id = 2
    /\ sessions[1] = PriorSession
    /\ RunSession.status = "completed"
    /\ findingRows # <<>>

\* C4: once create_session has succeeded, research() raises only when a
\* Session Store call fails, whatever the model and the search backend do.
C4_OnlyStoreFailureAborts == pc = "aborted" => error = "sqlite3.Error"

\* the N of the claim for the three depths
ClaimedN(d) == IF d = "quick" THEN 3 ELSE IF d = "standard" THEN 5 ELSE 8

TaggedWith(raw, tag) == StartsWith(Strip(raw), tag)

Remainder(raw, tag) == Strip(Drop(Strip(raw), Len(tag)))

\* the indices of the FINDING: lines, in order
RECURSIVE FindingIndices(_, _)
FindingIndices(lines, i) ==
    IF i > Len(lines) THEN <<>>
    ELSE IF TaggedWith(lines[i], FINDING_TAG) THEN <<i>> \o FindingIndices(lines, i + 1)
    ELSE FindingIndices(lines, i + 1)

\* the record of the FINDING: line at index a, followed by the lines a+1..b
RefRecord(lines, a, b) ==
    LET S == {j \in (a + 1)..b : TaggedWith(lines[j], SOURCES_TAG)}
        C == {j \in (a + 1)..b : TaggedWith(lines[j], CONFIDENCE_TAG)}
        last(X) == CHOOSE j \in X : \A k \in X : k <= j
        keys == {"text"} \cup (IF S # {} THEN {"sources"} ELSE {})
                         \cup (IF C # {} THEN {"confidence"} ELSE {})
    IN  [k \in keys |->
            IF k = "text" THEN Remainder(lines[a], FINDING_TAG)
            ELSE IF k = "sources" THEN Remainder(lines[last(S)], SOURCES_TAG)
            ELSE Remainder(lines[last(C)], CONFIDENCE_TAG)]

RefFindings(text) ==
    LET lines == Split(text, <<NL>>)
        F == FindingIndices(lines, 1)
    IN  [n \in 1..Len(F) |->
            RefRecord(lines, F[n], IF n < Len(F) THEN F[n + 1] - 1 ELSE Len(lines))]

\* the first tagged line of the text is a FINDING: line
FirstTaggedIsFinding(text) ==
    LET lines == Split(text, <<NL>>)
    IN  \E i \in 1..Len(lines) :
           /\ TaggedWith(lines[i], FINDING_TAG)
           /\ \A j \in 1..(i - 1) : /\ ~TaggedWith(lines[j], SOURCES_TAG)
                                    /\ ~TaggedWith(lines[j], CONFIDENCE_TAG)

\* C6: for a response whose first tagged line is a FINDING: line, the finding
\* parser returns one record per FINDING: line, in order, with text the stripped
\* remainder of the line, and sources / confidence the stripped remainder of the
\* last SOURCES: / CONFIDENCE: line before the next FINDING: line, if any.
C6_ParserMatchesReference ==
    (pkind = "findings" /\ pdone /\ pok /\ FirstTaggedIsFinding(ptext)) =>
        pres = RefFindings(ptext)

\* position j of c starts a blank-line break
BreakAt(c, j) == j + 1 <= Len(c) /\ c[j] = NL /\ c[j + 1] = NL

\* s is the text of c before its first blank-line break (all of c without one)
IsFirstParagraph(s, c) ==
    /\ Len(s) <= Len(c)
    /\ s = SubSeq(c, 1, Len(s))
    /\ \A j \in 1..Len(s) : ~BreakAt(c, j)
    /\ Len(s) = Len(c) \/ BreakAt(c, Len(s) + 1)

\* the report file of this run is on disk with the report content as its body
ReportFileWritten ==
    \E f \in files : /\ f.path = report_path
                     /\ f.text.session_id = session_id
                     /\ f.text.body = report.content

\* C7: when the report model call returns, the content is the model text and
\* the summary is the content up to its first blank-line break; when it raises,
\* the content is the error placeholder and the summary is empty; in both cases
\* the report file is written and complete_session records that summary (only a
\* failing Session Store call stops the run after the report stage).
C7_ReportSummary ==
    /\ pc \in {"save_report", "complete", "done"} =>
          IF "report" \in llmFailed
          THEN report = [content |-> ErrorPlaceholder, summary |-> <<>>]
          ELSE /\ llmOut.ok
               /\ report.content = llmOut.text
               /\ IsFirstParagraph(report.summary, report.content)
    /\ pc \in {"complete", "done"} => ReportFileWritten
    /\ pc = "done" => /\ RunSession.status = "completed"
                      /\ RunSession.summary = report.summary
    /\ (pc = "aborted" /\ report_path # <<>>) =>
          /\ error = "sqlite3.Error"
          /\ ReportFileWritten

\* a completed run whose report has a second paragraph
C7_Witness ==
    /\ pc = "done"
    /\ "report" \notin llmFailed
    /\ RunSession.summary = <<"S">>
    /\ \E j \in 1..Len(report.content) : BreakAt(report.content, j)
    /\ \E j \in 1..Len(report.content) : report.content[j] = "B"

\* the session rows in the order claimed for list_sessions
Precedes(a, b) ==
    \/ a.created_at > b.created_at
    \/ a.created_at = b.created_at /\ a.id > b.id

\* C8: list_sessions(limit) returns at most limit sessions, the most recently
\* created first and, for equal creation times, the larger id first; after
\* creating A, B, C in that order, list_sessions(2) returns C then B.
C8_ListOrderedByTimeThenId ==
    lastOp = "list_sessions" =>
        /\ Len(listed) <= listLimit
        /\ Len(listed) = (IF listLimit < Len(sessions) THEN listLimit ELSE Len(sessions))
        /\ \A i, j \in 1..Len(listed) : i < j => Precedes(listed[i], listed[j])
        /\ \A i \in 1..Len(listed) : \A k \in 1..Len(sessions) :
              \/ \E j \in 1..Len(listed) : listed[j] = sessions[k]
              \/ Precedes(listed[i], sessions[k])
        /\ ( /\ Len(sessions) = 3
             /\ [i \in 1..3 |-> sessions[i].topic] = <<<<"A">>, <<"B">>, <<"C">>>>
             /\ listLimit = 2 )
           => [i \in 1..Len(listed) |-> listed[i].topic] = <<<<"C">>, <<"B">>>>

\* no line of the text has an alphabetic character
NoUsableLine(text) ==
    \A i \in 1..Len(Split(text, <<NL>>)) : ~HasAlpha(Split(text, <<NL>>)[i])

\* C9: when the question-generation call returns a response with no usable
\* line, _generate_research_questions returns [topic]; it never returns an
\* empty list.
C9_NoUsableLineFallsBack ==
    (pkind = "questions" /\ pdone) =>
        /\ pres # <<>>
        /\ (pok /\ NoUsableLine(ptext)) => pres = <<ptopic>>

\* C10: SOURCES: and CONFIDENCE: lines before the first FINDING: line create no
\* record, so every parsed finding has a text field and the add_finding loop
\* of research() reads the text of every record without failing.
C10_EveryFindingHasText ==
    /\ \A i \in 1..Len(findings) : HasKey(findings[i], "text")
    /\ error # "KeyError"

\* C11: WebSearcher.search returns a list and never raises, for every configured
\* engine name; extract_content returns a text and never raises. A search call
\* that was made has therefore not ended the run with an exception.
C11_SearchNeverRaises ==
    searchCalls > 0 => error # "NotImplementedError"

\* C12: each accepted source is written to the Session Store before the next
\* search or extract_content call, so while collection is under way the source
\* rows stored for the session number as many as the in-memory source list.
C12_SourcesStoredAsProduced ==
    pc \in {"collect_query", "collect_result"} =>
        Len(RowsOf(sourceRows, session_id)) = Len(sources)

\* the six keys of the claimed result of research()
ClaimedKeys == {"session_id", "topic", "report", "report_path", "sources", "findings"}

\* C13: a generation error in any of the three model calls never leaves
\* research(): the question list is [topic], the finding list is empty, the
\* report is the placeholder with an empty summary; the later stages still run
\* (only a failing Session Store call stops the run) and the returned result
\* has the six keys.
C13_GenerationErrorContained ==
    /\ "questions" \in llmFailed => research_questions = <<topic>>
    /\ "analysis" \in llmFailed =>
          /\ findings = <<>>
          /\ RowsOf(findingRows, session_id) = <<>>
    /\ "report" \in llmFailed =>
          report = [content |-> ErrorPlaceholder, summary |-> <<>>]
    /\ llmFailed # {} =>
          /\ pc = "aborted" => error = "sqlite3.Error"
          /\ pc = "done" => DOMAIN ReturnValue = ClaimedKeys

\* the stored source references claimed for a parsed record: the empty list
\* exactly when the record has no sources field
ClaimedRefsOk(rec, stored) == (stored = JsonDumps(<<>>)) <=> ~HasKey(rec, "sources")

\* C15: after the analysis stage the store holds one finding row per parsed
\* record of the run, in parse order, with the record's text, and with source
\* references that are the serialized SOURCES value of the record (the empty
\* list only when the record has no sources field).
C15_FindingRowsMatchRecords ==
    pc \in {"report", "save_report", "complete", "done"} =>
        LET rows == RowsOf(findingRows, session_id) IN
          /\ Len(rows) = Len(findings)
          /\ \A i \in 1..Len(rows) :
                /\ rows[i].finding = findings[i].text
                /\ ClaimedRefsOk(findings[i], rows[i].source_ids)

\* C16: the analysis model call is made only when the source list is non-empty;
\* a run that collected no source makes no analysis call, has no finding and
\* stores no finding row.
C16_NoAnalysisWithoutSources ==
    (pc \notin {"create", "questions", "collect_query", "collect_result"}
       /\ sources = <<>>) =>
        /\ "analysis" \notin llmCalled
        /\ findings = <<>>
        /\ RowsOf(findingRows, session_id) = <<>>

\* the stages of a run, read off the state: what has happened by the time of
\* each model call and of complete_session
StagesInOrder ==
    /\ session_id = 0 => (llmCalled = {} /\ searchCalls = 0 /\ extractCalls = 0)
    /\ (searchCalls > 0 \/ "analysis" \in llmCalled) => "questions" \in llmCalled
    /\ "report" \in llmCalled => "analysis" \in llmCalled
    /\ "analysis" \in llmCalled =>
          Len(RowsOf(sourceRows, session_id)) = Len(sources)
    /\ "report" \in llmCalled =>
          Len(RowsOf(findingRows, session_id)) = Len(findings)
    /\ completeCalls > 0 => ReportFileWritten
    /\ (session_id # 0 /\ RunSession.status = "completed") =>
          /\ ReportFileWritten
          /\ Len(RowsOf(sourceRows, session_id)) = Len(sources)
          /\ Len(RowsOf(findingRows, session_id)) = Len(findings)

\* no step of an earlier stage is taken once a later stage has begun
NoStageOverlap ==
    /\ session_id # 0 => sessions' = sessions \/ pc = "complete"
    /\ "analysis" \in llmCalled =>
          /\ searchCalls' = searchCalls
          /\ extractCalls' = extractCalls
          /\ sourceRows' = sourceRows
          /\ "questions" \in llmFailed' <=> "questions" \in llmFailed
    /\ "report" \in llmCalled =>
          /\ findingRows' = findingRows
          /\ llmCalled' = llmCalled
    /\ completeCalls > 0 => (files' = files /\ sessions' = sessions)

\* C14: the stages of research() happen in one fixed order with no overlap:
\* create_session before every model and search call; every search,
\* extract_content and add_source before the analysis model call; every
\* add_finding before the report model call; the report file before
\* complete_session; a completed session has its report file written and all
\* its source and finding rows stored.
C14_FixedStageOrder == []StagesInOrder /\ [][NoStageOverlap]_vars

\* a completed run that stored sources and findings
C14_Witness ==
    /\ pc = "done"
    /\ RunSession.status = "completed"
    /\ llmCalled = {"questions", "analysis", "report"}
    /\ Len(RowsOf(sourceRows, session_id)) = MaxSourcesArg
    /\ Len(RowsOf(findingRows, session_id)) = 2
    /\ ReportFileWritten

\* the query list of the claim: the topic, then at most the first 3 questions
ClaimedQueries ==
    <<topic>> \o [i \in 1..(IF Len(research_questions) < 3 THEN Len(research_questions)
                            ELSE 3) |-> research_questions[i]]

\* <<query position, result position>> pairs in lexicographic order
PosBefore(a, b) == a[1] < b[1] \/ (a[1] = b[1] /\ a[2] < b[2])

\* what _collect_sources has done so far, read off the state
CollectedInOrder ==
    /\ Len(srcPos) = Len(sources)
    /\ \A i \in 1..Len(sources) :
          /\ srcPos[i][1] \in 1..Len(ClaimedQueries)
          /\ srcPos[i][2] \in 1..3
          /\ sources[i].query = ClaimedQueries[srcPos[i][1]]
          /\ sources[i].url = Result(srcPos[i][2]).url
          /\ sources[i].content # <<>>
    /\ \A i, j \in 1..Len(srcPos) : i < j => PosBefore(srcPos[i], srcPos[j])
    /\ extractCalls = Len(sources) + emptyExtracts
    /\ pc = "collect_result" => Len(search_results) <= 3
    /\ searchCalls <= Len(ClaimedQueries)
    /\ searchCalls <= 4
    /\ extractCalls <= 12

\* at the cap no gateway call is made
NoCallAtCap ==
    Len(sources) >= max_sources =>
        (searchCalls' = searchCalls /\ extractCalls' = extractCalls)

\* C17: _collect_sources searches the topic and then at most the first 3
\* questions, in that order, with at most 3 results each, fetched in the order
\* returned; a source is appended exactly when its extracted content is
\* non-empty, so the list is ordered by (query position, result position) and
\* every entry has content; once the count has reached max_sources no search or
\* extract_content call is made; a run makes at most 4 search calls and at most
\* 12 extract_content calls.
C17_CollectionOrderAndCaps == []CollectedInOrder /\ [][NoCallAtCap]_vars

\* a run with more than 3 questions that used all 4 queries and all 12 fetches
\* and reached the cap with the last fetch
C17_Witness ==
    /\ pc = "done"
    /\ Len(research_questions) > TopQuestions
    /\ searchCalls = 4
    /\ extractCalls = 12
    /\ emptyExtracts = 12 - MaxSourcesArg
    /\ Len(sources) = max_sources

\* b is a with rows appended
IsPrefix(a, b) == Len(a) <= Len(b) /\ \A i \in 1..Len(a) : b[i] = a[i]

\* a session row that differs from row r at most in the four completion fields
SameButCompletion(r, t) ==
    /\ t.id = r.id
    /\ t.topic = r.topic
    /\ t.depth = r.depth
    /\ t.created_at = r.created_at

\* the effect of one store operation on the three tables
WriteFrame ==
    /\ IsPrefix(sourceRows, sourceRows')
    /\ IsPrefix(findingRows, findingRows')
    /\ \A sid \in StoreIds :
          /\ IsPrefix(RowsOf(sourceRows, sid), RowsOf(sourceRows', sid))
          /\ IsPrefix(RowsOf(findingRows, sid), RowsOf(findingRows', sid))
    /\ lastOp' \in {"add_source", "add_finding"} => sessions' = sessions
    /\ lastOp' = "create_session" => IsPrefix(sessions, sessions')
    /\ lastOp' = "complete_session" =>
          /\ Len(sessions') = Len(sessions)
          /\ \A i \in 1..Len(sessions) :
                IF sessions[i].id = opSession'
                THEN SameButCompletion(sessions[i], sessions'[i])
                ELSE sessions'[i] = sessions[i]
          /\ (\A i \in 1..Len(sessions) : sessions[i].id # opSession') =>
                sessions' = sessions

\* C18: over any sequence of create_session, add_source, add_finding and
\* complete_session calls the source and finding rows of every session only
\* grow by appending; add_source and add_finding leave every session row
\* unchanged; complete_session(id, ...) changes only the session row with that
\* id, and only its status, completed_at, summary and report_path, and changes
\* nothing when no session has that id.
C18_WritesAppendOnly == [][WriteFrame]_vars

\* complete_session has just completed session 2 beside stored rows and an
\* in_progress session 1
C18_Witness ==
    /\ lastOp = "complete_session"
    /\ opSession = 2
    /\ Len(sessions) >= 2
    /\ sessions[1].status = "in_progress"
    /\ sessions[2].status = "completed"
    /\ sourceRows # <<>>
    /\ findingRows # <<>>

====
